---- MODULE Spec2Model ----
(***************************************************************************)
(* BasicAuthenticatorReconciler.Reconcile                                  *)
(* (internal/controller/basicauthenticator_controller.go) as a state       *)
(* machine.  One action per store call of Reconcile; the resource store,   *)
(* the deployment controller and the users of the cluster are the          *)
(* environment and move between the store calls of a running invocation.   *)
(***************************************************************************)
EXTENDS Integers, Sequences, FiniteSets, TLC

\* ---------------------------------------------------------------- bounds
MaxCfg == 2          \* proxy configuration parameters range over 1..MaxCfg
MaxFaults == 1       \* store calls that fail with a transient error
MaxExt == 2          \* writes by actors other than the controller
MaxFlips == 1        \* readiness changes reported by the deployment controller
MaxInv == 5          \* invocations counted (the counter saturates)
NumTargets == 2      \* workloads matched by the selection criteria

\* ------------------------------------------------------------- constants
ObservedReady == 3   \* readiness the deployment controller reports
Det == "det"         \* name CreateCredentials gives the secret of the resource
Ext == "ext"         \* name of a secret some other actor manages
Spare == "spare"     \* a name no actor gives a secret
SecretNames == {Det, Ext}
StoreNames == SecretNames \cup {Spare}
Targets == 1..NumTargets
Drift == <<"nginx.conf", 0>>     \* config content that no spec derives

VARIABLES
    auth,            \* the stored BasicAuthenticator
    secrets,         \* the stored secrets, by name
    cm,              \* the stored nginx configmap
    dep,             \* the stored nginx deployment
    targets,         \* the stored workloads the selector matches
    pc,              \* position of the running invocation of Reconcile
    ba,              \* basicAuthenticator, the in-memory copy
    credentialName,  \* local credentialName
    foundCm,         \* local foundConfigmap
    foundDep,        \* local foundDeployment
    toUpdate,        \* local deploymentsToUpdate, not yet updated
    result,          \* (ctrl.Result, error) of the invocation
    writes,          \* store writes the invocation has issued, in order
    invNo,           \* invocations started so far
    clean,           \* no fault and no foreign write since the start
    faults,          \* transient faults so far
    ext,             \* foreign writes so far
    flips,           \* readiness changes so far
    storeDefaults,   \* the store fills in fields the desired deployment leaves empty
    quiet,           \* no write by the environment since the invocation started
    startConv,       \* the invocation started in a converged state
    startInjected,   \* workloads that had the proxy container when the invocation started
    creates,         \* dependents of each kind Reconcile has created so far
    cmUpdates        \* configmap updates applied for the current spec and content

storeVars == <<auth, secrets, cm, dep, targets>>
localVars == <<ba, credentialName, foundCm, foundDep, toUpdate>>
envVars == <<faults, ext, flips, storeDefaults, clean>>
vars == <<auth, secrets, cm, dep, targets, pc, ba, credentialName, foundCm,
          foundDep, toUpdate, result, writes, invNo, clean, faults, ext,
          flips, storeDefaults, quiet, startConv, startInjected, creates, cmUpdates>>

\* ---------------------------------------------------------------- objects
NoAuth == [exists |-> FALSE, ref |-> "", type |-> "standalone", cfg |-> 1,
           ver |-> 0, ready |-> 0]
NoSecret == [exists |-> FALSE, owned |-> FALSE]
NoCm == [exists |-> FALSE, data |-> Drift, owned |-> FALSE, ver |-> 0]
NoSpec == [cfg |-> 1, cred |-> "", defaults |-> FALSE]
NoDep == [exists |-> FALSE, spec |-> NoSpec, owned |-> FALSE, ver |-> 0,
          ready |-> 0]
NoResult == [requeue |-> FALSE, err |-> "nil"]

Min(a, b) == IF a < b THEN a ELSE b

\* ------------------------------------------------------------- the store
\* A store call fails with a transient error while the budget lasts.
FaultChoice == IF faults < MaxFaults THEN {FALSE, TRUE} ELSE {FALSE}

Charge(fault) ==
    /\ faults' = IF fault THEN faults + 1 ELSE faults
    /\ clean' = (clean /\ ~fault)
    /\ UNCHANGED <<ext, flips, storeDefaults>>

\* get(kind, namespacedName) -> object | NotFound
GetErr(exists, fault) ==
    IF fault THEN "Transient" ELSE IF exists THEN "nil" ELSE "NotFound"

\* create(object): fails with AlreadyExists if present
CreateErr(exists, fault) ==
    IF fault THEN "Transient" ELSE IF exists THEN "AlreadyExists" ELSE "nil"

\* update(object) and updateStatus(object): conditioned on the version
UpdateErr(exists, storedVer, ver, fault) ==
    IF fault THEN "Transient"
    ELSE IF ~exists THEN "NotFound"
    ELSE IF storedVer # ver THEN "Conflict" ELSE "nil"

\* The store writes a new version only when the object changes.
Bump(old, new) == IF new = old THEN old ELSE [new EXCEPT !.ver = old.ver + 1]

\* ---------------------------------------------------- derived artifacts
\* CreateNginxConfigmap: the content is a function of the spec fields
NginxConfigData(b) == <<"nginx.conf", b.cfg>>

\* CreateNginxDeployment: the desired spec, from the resource spec and the
\* credential name; it leaves the store-populated fields empty
NginxDeploymentSpec(b, cred) == [cfg |-> b.cfg, cred |-> cred, defaults |-> FALSE]

\* what the store keeps of a deployment spec written to it
Defaulted(spec) == [spec EXCEPT !.defaults = storeDefaults]

\* nothing is left for Reconcile to do
Converged ==
    /\ auth.exists
    /\ auth.ref # ""
    /\ secrets[auth.ref].exists
    /\ cm.exists
    /\ cm.data = NginxConfigData(auth)
    /\ IF auth.type = "sidecar"
       THEN \A t \in Targets : targets[t].proxies > 0
       ELSE /\ dep.exists
            /\ dep.spec = NginxDeploymentSpec(auth, auth.ref)
            /\ auth.ready = dep.ready

\* ------------------------------------------------------------------ Init
Init ==
    /\ auth \in [exists : {TRUE}, ref : {"", Ext}, type : {"standalone", "sidecar"},
                 cfg : {1}, ver : {0}, ready : {0}]
    /\ secrets \in {[n \in StoreNames |-> IF n = Ext /\ e THEN [exists |-> TRUE, owned |-> FALSE]
                                           ELSE NoSecret] : e \in BOOLEAN}
    /\ cm = NoCm
    /\ dep = NoDep
    /\ targets = [t \in Targets |-> [proxies |-> 0, owned |-> FALSE, ver |-> 0]]
    /\ pc = "idle"
    /\ ba = NoAuth
    /\ credentialName = ""
    /\ foundCm = NoCm
    /\ foundDep = NoDep
    /\ toUpdate = << >>
    /\ result = NoResult
    /\ writes = << >>
    /\ invNo = 0
    /\ clean = TRUE
    /\ faults = 0
    /\ ext = 0
    /\ flips = 0
    /\ storeDefaults \in BOOLEAN
    /\ quiet = FALSE
    /\ startConv = FALSE
    /\ startInjected = 0
    /\ creates = [k \in {"secret", "configmap", "deployment"} |-> 0]
    /\ cmUpdates = 0

\* ------------------------------------------------------------- Reconcile
\* return ctrl.Result{Requeue: requeue}, err
Return(requeue, err) ==
    /\ pc' = "done"
    /\ result' = [requeue |-> requeue, err |-> err]

Goto(label) ==
    /\ pc' = label
    /\ UNCHANGED result

Issue(op, err) == writes' = Append(writes, [op |-> op, err |-> err])

\* Fetch without the errors.IsNotFound branch: absence is returned as an error
Fetch_NotFoundIsError ==
    /\ pc \in {"idle", "done"}
    /\ \E fault \in FaultChoice :
        LET err == GetErr(auth.exists, fault) IN
        /\ Charge(fault)
        /\ invNo' = Min(invNo + 1, MaxInv)
        /\ writes' = << >>
        /\ ba' = IF err = "nil" THEN auth ELSE NoAuth
        /\ credentialName' = ""
        /\ foundCm' = NoCm
        /\ foundDep' = NoDep
        /\ toUpdate' = << >>
        /\ IF err # "nil" THEN Return(FALSE, err)
           ELSE pc' = "refetch" /\ result' = NoResult
        /\ quiet' = TRUE
        /\ startConv' = Converged
        /\ startInjected' = Cardinality({t \in Targets : targets[t].proxies > 0})
        /\ UNCHANGED <<storeVars, cmUpdates, creates>>

\* r.Get(ctx, req.NamespacedName, basicAuthenticator), the first one
Fetch ==
    /\ pc \in {"idle", "done"}
    /\ \E fault \in FaultChoice :
        LET err == GetErr(auth.exists, fault) IN
        /\ Charge(fault)
        /\ invNo' = Min(invNo + 1, MaxInv)
        /\ writes' = << >>
        /\ ba' = IF err = "nil" THEN auth ELSE NoAuth
        /\ credentialName' = ""
        /\ foundCm' = NoCm
        /\ foundDep' = NoDep
        /\ toUpdate' = << >>
        /\ IF err = "NotFound" THEN Return(FALSE, "nil")
           ELSE IF err # "nil" THEN Return(FALSE, err)
           ELSE pc' = "refetch" /\ result' = NoResult
        /\ quiet' = TRUE
        /\ startConv' = Converged
        /\ startInjected' = Cardinality({t \in Targets : targets[t].proxies > 0})
        /\ UNCHANGED <<storeVars, cmUpdates, creates>>

\* Refetch without the test credentialName == "": a secret is always provisioned
Refetch_IgnoresRef ==
    /\ pc = "refetch"
    /\ \E fault \in FaultChoice :
        LET err == GetErr(auth.exists, fault) IN
        /\ Charge(fault)
        /\ IF err # "nil"
           THEN Return(FALSE, err) /\ UNCHANGED <<ba, credentialName>>
           ELSE /\ ba' = auth
                /\ credentialName' = auth.ref
                /\ Goto("secretLookup")
        /\ UNCHANGED <<storeVars, foundCm, foundDep, toUpdate, writes, invNo,
                       quiet, startConv, startInjected, creates, cmUpdates>>

\* the second r.Get of the resource; credentialName is read from it
Refetch ==
    /\ pc = "refetch"
    /\ \E fault \in FaultChoice :
        LET err == GetErr(auth.exists, fault) IN
        /\ Charge(fault)
        /\ IF err # "nil"
           THEN Return(FALSE, err) /\ UNCHANGED <<ba, credentialName>>
           ELSE /\ ba' = auth
                /\ credentialName' = auth.ref
                /\ Goto(IF auth.ref = "" THEN "secretLookup" ELSE "secretGet")
        /\ UNCHANGED <<storeVars, foundCm, foundDep, toUpdate, writes, invNo, quiet, startConv, startInjected, creates, cmUpdates>>

\* a name drawn afresh whenever the deterministic one is taken
NewSecretName_Fresh == IF secrets[Det].exists THEN Spare ELSE Det

\* the name of the secret CreateCredentials returns: derived from the resource
\* alone, the same in every invocation
NewSecretName == Det

\* r.Get of newSecret by name, when credentialName == ""; anything but
\* NotFound (the secret is there, or the lookup failed) takes the else branch
SecretLookup ==
    /\ pc = "secretLookup"
    /\ \E fault \in FaultChoice :
        LET err == GetErr(secrets[NewSecretName].exists, fault) IN
        /\ Charge(fault)
        /\ IF err = "NotFound" THEN Goto("secretCreate")
           ELSE Return(TRUE, "nil")
        /\ UNCHANGED <<storeVars, localVars, writes, invNo, quiet, startConv, startInjected, creates, cmUpdates>>

\* CreateCredentials: the secret that r.Create is given
CreateCredentials(b) == [exists |-> TRUE, owned |-> TRUE]

\* r.Create(ctx, newSecret) with its error dropped: the ref is set and the
\* update of the resource follows whether or not the secret was created
SecretCreate_IgnoresError ==
    /\ pc = "secretCreate"
    /\ \E fault \in FaultChoice :
        LET err == CreateErr(secrets[NewSecretName].exists, fault) IN
        /\ Charge(fault)
        /\ Issue("CreateSecret", err)
        /\ IF err # "nil"
           THEN UNCHANGED <<secrets, creates>>
           ELSE /\ secrets' = [secrets EXCEPT ![NewSecretName] = CreateCredentials(ba)]
                /\ creates' = [creates EXCEPT !.secret = @ + 1]
        /\ credentialName' = NewSecretName
        /\ ba' = [ba EXCEPT !.ref = NewSecretName]
        /\ Goto("authUpdate")
        /\ UNCHANGED <<auth, cm, dep, targets, foundCm, foundDep, toUpdate, invNo,
                       quiet, startConv, startInjected, cmUpdates>>

\* r.Create(ctx, newSecret)
SecretCreate ==
    /\ pc = "secretCreate"
    /\ \E fault \in FaultChoice :
        LET err == CreateErr(secrets[NewSecretName].exists, fault) IN
        /\ Charge(fault)
        /\ Issue("CreateSecret", err)
        /\ IF err # "nil"
           THEN Return(TRUE, err) /\ UNCHANGED <<secrets, ba, credentialName, creates>>
           ELSE /\ secrets' = [secrets EXCEPT ![NewSecretName] = CreateCredentials(ba)]
                /\ credentialName' = NewSecretName
                /\ ba' = [ba EXCEPT !.ref = NewSecretName]
                /\ creates' = [creates EXCEPT !.secret = @ + 1]
                /\ Goto("authUpdate")
        /\ UNCHANGED <<auth, cm, dep, targets, foundCm, foundDep, toUpdate, invNo, quiet, startConv, startInjected, cmUpdates>>

\* r.Update(ctx, basicAuthenticator): the spec of the in-memory copy replaces
\* the stored spec; the status is not written by this path
AuthUpdate ==
    /\ pc = "authUpdate"
    /\ \E fault \in FaultChoice :
        LET err == UpdateErr(auth.exists, auth.ver, ba.ver, fault) IN
        /\ Charge(fault)
        /\ Issue("UpdateAuth", err)
        /\ IF err # "nil"
           THEN Return(FALSE, err) /\ UNCHANGED <<auth, ba>>
           ELSE /\ auth' = Bump(auth, [ba EXCEPT !.ready = auth.ready])
                /\ ba' = auth'
                /\ Goto("authRefetch")
        /\ UNCHANGED <<secrets, cm, dep, targets, credentialName, foundCm,
                       foundDep, toUpdate, invNo, quiet, startConv, startInjected, creates, cmUpdates>>

\* r.Get of the resource after the update
AuthRefetch ==
    /\ pc = "authRefetch"
    /\ \E fault \in FaultChoice :
        LET err == GetErr(auth.exists, fault) IN
        /\ Charge(fault)
        /\ IF err # "nil"
           THEN Return(FALSE, err) /\ UNCHANGED ba
           ELSE ba' = auth /\ Goto("cmGet")
        /\ UNCHANGED <<storeVars, credentialName, foundCm, foundDep, toUpdate,
                       writes, invNo, quiet, startConv, startInjected, creates, cmUpdates>>

\* r.Get of the referenced secret, when credentialName != ""
SecretGet ==
    /\ pc = "secretGet"
    /\ \E fault \in FaultChoice :
        LET err == GetErr(secrets[credentialName].exists, fault) IN
        /\ Charge(fault)
        /\ IF err # "nil" THEN Return(FALSE, err) ELSE Goto("cmGet")
        /\ UNCHANGED <<storeVars, localVars, writes, invNo, quiet, startConv, startInjected, creates, cmUpdates>>

\* the mode test inverted: sidecar resources get the deployment path
Workload_Inverted(b) == IF b.type = "sidecar" THEN "depGet" ELSE "inject"

\* isSidecar := basicAuthenticator.Spec.Type == "sidecar"
Workload(b) == IF b.type = "sidecar" THEN "inject" ELSE "depGet"

\* CmGet without the reflect.DeepEqual test: a found configmap is always updated
CmGet_AlwaysUpdates ==
    /\ pc = "cmGet"
    /\ \E fault \in FaultChoice :
        LET err == GetErr(cm.exists, fault) IN
        /\ Charge(fault)
        /\ IF err = "NotFound" THEN Goto("cmCreate") /\ UNCHANGED foundCm
           ELSE IF err # "nil" THEN Return(FALSE, err) /\ UNCHANGED foundCm
           ELSE foundCm' = cm /\ Goto("cmUpdate")
        /\ UNCHANGED <<storeVars, ba, credentialName, foundDep, toUpdate,
                       writes, invNo, quiet, startConv, startInjected, creates, cmUpdates>>

\* r.Get of the configmap and the comparison of its Data
CmGet ==
    /\ pc = "cmGet"
    /\ \E fault \in FaultChoice :
        LET err == GetErr(cm.exists, fault) IN
        /\ Charge(fault)
        /\ IF err = "NotFound" THEN Goto("cmCreate") /\ UNCHANGED foundCm
           ELSE IF err # "nil" THEN Return(FALSE, err) /\ UNCHANGED foundCm
           ELSE /\ foundCm' = cm
                /\ IF NginxConfigData(ba) # cm.data THEN Goto("cmUpdate")
                   ELSE Goto(Workload(ba))
        /\ UNCHANGED <<storeVars, ba, credentialName, foundDep, toUpdate,
                       writes, invNo, quiet, startConv, startInjected, creates, cmUpdates>>

\* CmCreate without ctrl.SetControllerReference
CmCreate_NoOwner ==
    /\ pc = "cmCreate"
    /\ \E fault \in FaultChoice :
        LET err == CreateErr(cm.exists, fault) IN
        /\ Charge(fault)
        /\ Issue("CreateConfig", err)
        /\ IF err # "nil"
           THEN Return(TRUE, err) /\ UNCHANGED <<cm, creates>>
           ELSE /\ cm' = [exists |-> TRUE, data |-> NginxConfigData(ba),
                          owned |-> FALSE, ver |-> 0]
                /\ creates' = [creates EXCEPT !.configmap = @ + 1]
                /\ Return(TRUE, "nil")
        /\ UNCHANGED <<auth, secrets, dep, targets, localVars, invNo, quiet,
                       startConv, startInjected, cmUpdates>>

\* ctrl.SetControllerReference and r.Create(ctx, nginxConfig)
CmCreate ==
    /\ pc = "cmCreate"
    /\ \E fault \in FaultChoice :
        LET err == CreateErr(cm.exists, fault) IN
        /\ Charge(fault)
        /\ Issue("CreateConfig", err)
        /\ IF err # "nil"
           THEN Return(TRUE, err) /\ UNCHANGED <<cm, creates>>
           ELSE /\ cm' = [exists |-> TRUE, data |-> NginxConfigData(ba),
                          owned |-> TRUE, ver |-> 0]
                /\ creates' = [creates EXCEPT !.configmap = @ + 1]
                /\ Return(TRUE, "nil")
        /\ UNCHANGED <<auth, secrets, dep, targets, localVars, invNo, quiet, startConv, startInjected, cmUpdates>>

\* foundConfigmap.Data = nginxConfig.Data; r.Update(ctx, &foundConfigmap)
CmUpdate ==
    /\ pc = "cmUpdate"
    /\ \E fault \in FaultChoice :
        LET err == UpdateErr(cm.exists, cm.ver, foundCm.ver, fault) IN
        /\ Charge(fault)
        /\ Issue("UpdateConfig", err)
        /\ IF err # "nil"
           THEN Return(FALSE, err) /\ UNCHANGED <<cm, foundCm>>
           ELSE /\ cm' = Bump(cm, [foundCm EXCEPT !.data = NginxConfigData(ba)])
                /\ foundCm' = cm'
                /\ Goto(Workload(ba))
        /\ cmUpdates' = IF err = "nil" /\ auth.exists
                            /\ NginxConfigData(ba) = NginxConfigData(auth)
                         THEN cmUpdates + 1 ELSE cmUpdates
        /\ UNCHANGED <<auth, secrets, dep, targets, ba, credentialName,
                       foundDep, toUpdate, invNo, quiet, startConv, startInjected, creates>>

\* the workloads Injector returns: every matching workload whose pod template
\* has no proxy container, with the proxy container added to the copy
RECURSIVE Injected(_)
Injected(t) ==
    IF t = 0 THEN << >>
    ELSE LET rest == Injected(t - 1) IN
         IF targets[t].proxies = 0
         THEN Append(rest, [id |-> t,
                            obj |-> [targets[t] EXCEPT !.proxies = @ + 1]])
         ELSE rest

\* an injection that does not look for the proxy container
RECURSIVE InjectedAll(_)
InjectedAll(t) ==
    IF t = 0 THEN << >>
    ELSE Append(InjectedAll(t - 1),
                [id |-> t, obj |-> [targets[t] EXCEPT !.proxies = @ + 1]])

\* Inject with every matching workload injected again and updated
Inject_All ==
    /\ pc = "inject"
    /\ \E fault \in FaultChoice :
        /\ Charge(fault)
        /\ IF fault
           THEN Return(FALSE, "Transient") /\ UNCHANGED toUpdate
           ELSE /\ toUpdate' = InjectedAll(NumTargets)
                /\ IF toUpdate' = << >> THEN Return(FALSE, "nil")
                   ELSE Goto("injectUpdate")
        /\ UNCHANGED <<storeVars, ba, credentialName, foundCm, foundDep,
                       writes, invNo, quiet, startConv, startInjected, creates, cmUpdates>>

\* r.Injector(ctx, basicAuthenticator, foundConfigmap.Name, credentialName)
Inject ==
    /\ pc = "inject"
    /\ \E fault \in FaultChoice :
        /\ Charge(fault)
        /\ IF fault
           THEN Return(FALSE, "Transient") /\ UNCHANGED toUpdate
           ELSE /\ toUpdate' = Injected(NumTargets)
                /\ IF toUpdate' = << >> THEN Return(FALSE, "nil")
                   ELSE Goto("injectUpdate")
        /\ UNCHANGED <<storeVars, ba, credentialName, foundCm, foundDep,
                       writes, invNo, quiet, startConv, startInjected, creates, cmUpdates>>

\* InjectUpdate with the return inside the loop: only the first is updated
InjectUpdate_FirstOnly ==
    /\ pc = "injectUpdate"
    /\ \E fault \in FaultChoice :
        LET deploy == Head(toUpdate)
            err == UpdateErr(TRUE, targets[deploy.id].ver, deploy.obj.ver, fault) IN
        /\ Charge(fault)
        /\ Issue("UpdateTarget", err)
        /\ IF err # "nil"
           THEN Return(FALSE, err) /\ UNCHANGED <<targets, toUpdate>>
           ELSE /\ targets' = [targets EXCEPT
                                 ![deploy.id] = Bump(targets[deploy.id], deploy.obj)]
                /\ toUpdate' = Tail(toUpdate)
                /\ Return(FALSE, "nil")
        /\ UNCHANGED <<auth, secrets, cm, dep, ba, credentialName, foundCm,
                       foundDep, invNo, quiet, startConv, startInjected, creates, cmUpdates>>

\* r.Update(ctx, deploy) for each deploy of deploymentsToUpdate
InjectUpdate ==
    /\ pc = "injectUpdate"
    /\ \E fault \in FaultChoice :
        LET deploy == Head(toUpdate)
            err == UpdateErr(TRUE, targets[deploy.id].ver, deploy.obj.ver, fault) IN
        /\ Charge(fault)
        /\ Issue("UpdateTarget", err)
        /\ IF err # "nil"
           THEN Return(FALSE, err) /\ UNCHANGED <<targets, toUpdate>>
           ELSE /\ targets' = [targets EXCEPT
                                 ![deploy.id] = Bump(targets[deploy.id], deploy.obj)]
                /\ toUpdate' = Tail(toUpdate)
                /\ IF toUpdate' = << >> THEN Return(FALSE, "nil")
                   ELSE Goto("injectUpdate")
        /\ UNCHANGED <<auth, secrets, cm, dep, ba, credentialName, foundCm,
                       foundDep, invNo, quiet, startConv, startInjected, creates, cmUpdates>>

\* r.Get of the deployment and the comparison of its Spec
DepGet ==
    /\ pc = "depGet"
    /\ \E fault \in FaultChoice :
        LET err == GetErr(dep.exists, fault) IN
        /\ Charge(fault)
        /\ IF err = "NotFound" THEN Goto("depCreate") /\ UNCHANGED foundDep
           ELSE IF err # "nil" THEN Return(FALSE, err) /\ UNCHANGED foundDep
           ELSE /\ foundDep' = dep
                /\ IF NginxDeploymentSpec(ba, credentialName) # dep.spec
                   THEN Goto("depUpdate")
                   ELSE Goto("statusUpdate")
        /\ UNCHANGED <<storeVars, ba, credentialName, foundCm, toUpdate,
                       writes, invNo, quiet, startConv, startInjected, creates, cmUpdates>>

\* ctrl.SetControllerReference and r.Create(ctx, newDeployment)
DepCreate ==
    /\ pc = "depCreate"
    /\ \E fault \in FaultChoice :
        LET err == CreateErr(dep.exists, fault) IN
        /\ Charge(fault)
        /\ Issue("CreateDeployment", err)
        /\ IF err # "nil"
           THEN Return(TRUE, err) /\ UNCHANGED <<dep, creates>>
           ELSE /\ dep' = [exists |-> TRUE,
                           spec |-> Defaulted(NginxDeploymentSpec(ba, credentialName)),
                           owned |-> TRUE, ver |-> 0, ready |-> 0]
                /\ creates' = [creates EXCEPT !.deployment = @ + 1]
                /\ Return(TRUE, "nil")
        /\ UNCHANGED <<auth, secrets, cm, targets, localVars, invNo, quiet, startConv, startInjected, cmUpdates>>

\* foundDeployment.Spec = newDeployment.Spec; r.Update(ctx, foundDeployment)
DepUpdate ==
    /\ pc = "depUpdate"
    /\ \E fault \in FaultChoice :
        LET err == UpdateErr(dep.exists, dep.ver, foundDep.ver, fault) IN
        /\ Charge(fault)
        /\ Issue("UpdateDeployment", err)
        /\ IF err # "nil"
           THEN Return(FALSE, err) /\ UNCHANGED <<dep, foundDep>>
           ELSE /\ dep' = Bump(dep, [dep EXCEPT !.spec =
                              Defaulted(NginxDeploymentSpec(ba, credentialName))])
                /\ foundDep' = dep'
                /\ Goto("statusUpdate")
        /\ UNCHANGED <<auth, secrets, cm, targets, ba, credentialName, foundCm,
                       toUpdate, invNo, quiet, startConv, startInjected, creates, cmUpdates>>

\* StatusUpdate through a forced write of the whole in-memory copy
StatusUpdate_Clobbers ==
    /\ pc = "statusUpdate"
    /\ \E fault \in FaultChoice :
        LET err == UpdateErr(auth.exists, auth.ver, auth.ver, fault) IN
        /\ Charge(fault)
        /\ Issue("UpdateStatus", err)
        /\ ba' = [ba EXCEPT !.ready = foundDep.ready]
        /\ IF err # "nil"
           THEN Return(FALSE, err) /\ UNCHANGED auth
           ELSE /\ auth' = Bump(auth, [ba' EXCEPT !.ver = auth.ver])
                /\ Return(FALSE, "nil")
        /\ UNCHANGED <<secrets, cm, dep, targets, credentialName, foundCm,
                       foundDep, toUpdate, invNo, quiet, startConv, startInjected, creates, cmUpdates>>

\* basicAuthenticator.Status.ReadyReplicas = foundDeployment.Status.ReadyReplicas;
\* r.Status().Update(ctx, basicAuthenticator): only the status is written
StatusUpdate ==
    /\ pc = "statusUpdate"
    /\ \E fault \in FaultChoice :
        LET err == UpdateErr(auth.exists, auth.ver, ba.ver, fault) IN
        /\ Charge(fault)
        /\ Issue("UpdateStatus", err)
        /\ ba' = [ba EXCEPT !.ready = foundDep.ready]
        /\ IF err # "nil"
           THEN Return(FALSE, err) /\ UNCHANGED auth
           ELSE /\ auth' = Bump(auth, [auth EXCEPT !.ready = foundDep.ready])
                /\ Return(FALSE, "nil")
        /\ UNCHANGED <<secrets, cm, dep, targets, credentialName, foundCm,
                       foundDep, toUpdate, invNo, quiet, startConv, startInjected, creates, cmUpdates>>

Reconcile ==
    \/ Fetch
    \/ Refetch
    \/ SecretLookup
    \/ SecretCreate
    \/ AuthUpdate
    \/ AuthRefetch
    \/ SecretGet
    \/ CmGet
    \/ CmCreate
    \/ CmUpdate
    \/ Inject
    \/ InjectUpdate
    \/ DepGet
    \/ DepCreate
    \/ DepUpdate
    \/ StatusUpdate

\* ------------------------------------------------------- the environment
Foreign ==
    /\ ext < MaxExt
    /\ ext' = ext + 1
    /\ clean' = FALSE
    /\ quiet' = FALSE
    /\ UNCHANGED <<faults, flips, storeDefaults>>
    /\ UNCHANGED <<pc, localVars, result, writes, invNo, startConv, startInjected, creates>>

\* a user points the resource at a secret; the field is set once
ExtSetRef ==
    /\ auth.exists /\ auth.ref = ""
    /\ \E n \in SecretNames : auth' = Bump(auth, [auth EXCEPT !.ref = n])
    /\ Foreign
    /\ UNCHANGED cmUpdates
    /\ UNCHANGED <<secrets, cm, dep, targets>>

\* a user changes the proxy configuration parameters
ExtSetCfg ==
    /\ auth.exists
    /\ \E c \in (1..MaxCfg) \ {auth.cfg} : auth' = Bump(auth, [auth EXCEPT !.cfg = c])
    /\ Foreign
    /\ cmUpdates' = 0
    /\ UNCHANGED <<secrets, cm, dep, targets>>

\* a user switches the resource between standalone and sidecar
ExtSetType ==
    /\ auth.exists
    /\ auth' = Bump(auth, [auth EXCEPT !.type = IF @ = "sidecar" THEN "standalone"
                                                ELSE "sidecar"])
    /\ Foreign
    /\ UNCHANGED cmUpdates
    /\ UNCHANGED <<secrets, cm, dep, targets>>

\* a user deletes the resource
ExtDelete ==
    /\ auth.exists
    /\ auth' = NoAuth
    /\ Foreign
    /\ UNCHANGED cmUpdates
    /\ UNCHANGED <<secrets, cm, dep, targets>>

\* the owner of a referenced secret creates it
ExtCreateSecret ==
    /\ ~secrets[Ext].exists
    /\ secrets' = [secrets EXCEPT ![Ext] = [exists |-> TRUE, owned |-> FALSE]]
    /\ Foreign
    /\ UNCHANGED cmUpdates
    /\ UNCHANGED <<auth, cm, dep, targets>>

\* another actor edits the content of the configmap
ExtEditCm ==
    /\ cm.exists /\ cm.data # Drift
    /\ cm' = Bump(cm, [cm EXCEPT !.data = Drift])
    /\ Foreign
    /\ cmUpdates' = 0
    /\ UNCHANGED <<auth, secrets, dep, targets>>

\* the owner of a target workload edits the rest of its pod template
ExtEditTarget ==
    /\ \E t \in Targets : targets' = [targets EXCEPT ![t].ver = @ + 1]
    /\ Foreign
    /\ UNCHANGED cmUpdates
    /\ UNCHANGED <<auth, secrets, cm, dep>>

\* the deployment controller reports readiness in the status of the deployment
DepStatus ==
    /\ dep.exists
    /\ flips < MaxFlips
    /\ flips' = flips + 1
    /\ dep' = Bump(dep, [dep EXCEPT !.ready = IF @ = 0 THEN ObservedReady ELSE 0])
    /\ quiet' = FALSE
    /\ UNCHANGED <<auth, secrets, cm, targets, pc, localVars, result, writes,
                   invNo, clean, faults, ext, storeDefaults, startConv, startInjected, creates, cmUpdates>>

Next ==
    \/ Reconcile
    \/ ExtSetRef
    \/ ExtSetCfg
    \/ ExtSetType
    \/ ExtDelete
    \/ ExtCreateSecret
    \/ ExtEditCm
    \/ ExtEditTarget
    \/ DepStatus

Spec == Init /\ [][Next]_vars

\* The work queue runs Reconcile again after every requeue and every error,
\* and an invocation that has started runs to its end.
FairSpec == Spec /\ WF_vars(Reconcile)

\* ================================================================ claims
Last(w) == w[Len(w)]
Ops(w) == [i \in 1..Len(w) |-> w[i].op]
Wrote(op) == \E i \in 1..Len(writes) : writes[i].op = op /\ writes[i].err = "nil"
CreateOps == {"CreateSecret", "CreateConfig", "CreateDeployment"}

\* the positions of Reconcile that belong to the step that issues a write
StepOf(op) ==
    IF op \in {"CreateSecret", "UpdateAuth"}
    THEN {"secretLookup", "secretCreate", "authUpdate", "authRefetch", "secretGet"}
    ELSE IF op \in {"CreateConfig", "UpdateConfig"}
    THEN {"cmGet", "cmCreate", "cmUpdate"}
    ELSE IF op = "UpdateStatus" THEN {"statusUpdate"}
    ELSE {"inject", "injectUpdate", "depGet", "depCreate", "depUpdate"}

\* C1: once a step of an invocation has created a dependent object, the
\* invocation is still in that step or has ended, it has issued no write of a
\* later step, and it ends asking to be run again (by Requeue or by an error).
C1_CreateEndsInvocation ==
    \A i \in 1..Len(writes) :
        (writes[i].op \in CreateOps /\ writes[i].err = "nil") =>
            /\ pc \in StepOf(writes[i].op) \cup {"done"}
            /\ \A j \in (i + 1)..Len(writes) : writes[j].op \in {"UpdateAuth"}
            /\ pc = "done" => (result.requeue \/ result.err # "nil")

\* C2: with no fault and no foreign write, a standalone resource that started
\* with an empty ref goes through: invocation 1 secret and ref, requeue;
\* invocation 2 configmap, requeue; invocation 3 deployment, requeue;
\* invocation 4 reads readiness 3, writes only the status, no requeue.
C2_FourInvocations ==
    (clean /\ pc = "done" /\ auth.exists /\ auth.type = "standalone" /\ auth.ref # Ext) =>
        /\ invNo = 1 => /\ Ops(writes) = <<"CreateSecret", "UpdateAuth">>
                        /\ auth.ref = Det
                        /\ result = [requeue |-> TRUE, err |-> "nil"]
        /\ invNo = 2 => /\ Ops(writes) = <<"CreateConfig">>
                        /\ result = [requeue |-> TRUE, err |-> "nil"]
        /\ invNo = 3 => /\ Ops(writes) = <<"CreateDeployment">>
                        /\ result = [requeue |-> TRUE, err |-> "nil"]
        /\ (invNo = 4 /\ foundDep.ready = ObservedReady) =>
                        /\ Ops(writes) = <<"UpdateStatus">>
                        /\ auth.ready = ObservedReady
                        /\ result = NoResult

\* C3 (as claimed): once the stored ref is non-empty no step changes it, and no
\* step of Reconcile creates, updates or deletes the secret it names.
C3_RefAndSecretUntouched ==
    [][/\ (auth.exists /\ auth.ref # "" /\ auth'.exists) => auth'.ref = auth.ref
       /\ (auth.exists /\ auth.ref # "" /\ pc' # pc) =>
              secrets'[auth.ref] = secrets[auth.ref]]_vars

\* C3 (amended): once the stored ref is non-empty no step changes it; a step
\* of Reconcile never changes a secret that exists, and creates one only in an
\* invocation that read the ref as empty, and then the secret named Det.
C3_RefStable ==
    [][/\ (auth.exists /\ auth.ref # "" /\ auth'.exists) => auth'.ref = auth.ref
       /\ (pc' # pc /\ secrets' # secrets) =>
              /\ ba.ref = ""
              /\ ~secrets[Det].exists
              /\ \A n \in SecretNames \ {Det} : secrets'[n] = secrets[n]]_vars

\* an update of the resource, based on a read that saw the ref empty, met the
\* ref an external actor had set meanwhile and failed with Conflict
C3_Witness ==
    /\ pc = "done"
    /\ writes # << >>
    /\ Last(writes) = [op |-> "UpdateAuth", err |-> "Conflict"]
    /\ ba.ref = Det
    /\ auth.ref = Ext

\* C4: an invocation that starts in a converged state, with no write by the
\* environment since, issues no store write.
C4_ConvergedNoWrites == (quiet /\ startConv) => writes = << >>

\* C5: an invocation whose write failed with Conflict ends with Requeue and
\* without an error.
C5_ConflictRequeues ==
    (pc = "done" /\ writes # << >> /\ Last(writes).err = "Conflict") =>
        result = [requeue |-> TRUE, err |-> "nil"]

\* C6: a store call of Reconcile that fails, other than by benign absence,
\* ends the invocation at once and the invocation returns that error.
C6_ErrorsSurface ==
    [][/\ (faults' # faults) => (pc' = "done" /\ result'.err = "Transient")
       /\ (writes' # writes /\ writes' # << >> /\ Last(writes').err # "nil") =>
              (pc' = "done" /\ result'.err = Last(writes').err)]_vars

\* C7: when the first Get finds the resource absent, the invocation ends with
\* no error and no requeue, and has written nothing.
C7_AbsentIsSuccess ==
    [][(Fetch /\ ~auth.exists /\ faults' = faults) =>
           /\ pc' = "done"
           /\ result' = NoResult
           /\ writes' = << >>
           /\ UNCHANGED storeVars]_vars

\* an invocation has ended at the first Get because the resource was gone
C7_Witness ==
    /\ pc = "done"
    /\ ~auth.exists
    /\ ba = NoAuth
    /\ result = NoResult
    /\ writes = << >>
    /\ invNo >= 1

C10_DoneReportsStatus ==
    (pc = "done" /\ result = NoResult /\ ba.exists) => Wrote("UpdateStatus")

\* C11: when the ref is set and the secret it names is absent, the invocation
\* ends at the fetch of the secret with Requeue and no error, and has written
\* nothing.
C11_AbsentSecretRequeues ==
    [][(SecretGet /\ ~secrets[credentialName].exists /\ faults' = faults) =>
           /\ pc' = "done"
           /\ result' = [requeue |-> TRUE, err |-> "nil"]
           /\ writes' = << >>
           /\ UNCHANGED storeVars]_vars

\* C12: Reconcile issues an update of the deployment only when the stored
\* spec differs from the desired one in a field the store does not populate.
C12_DefaultsIgnored ==
    pc = "depUpdate" =>
        [foundDep.spec EXCEPT !.defaults = FALSE] # NginxDeploymentSpec(ba, credentialName)

\* the spec fields of a resource
SpecOf(a) == [exists |-> a.exists, ref |-> a.ref, type |-> a.type, cfg |-> a.cfg]

\* C13: the status write leaves every spec field of the stored resource as it
\* was, whatever the in-memory copy holds.
C13_StatusWriteKeepsSpec ==
    [][(pc = "statusUpdate" /\ pc' # pc) => SpecOf(auth') = SpecOf(auth)]_vars

\* a status write issued from a copy read before an external actor changed the
\* spec was rejected, and the stored spec is the one the external actor set
C13_Witness ==
    /\ pc = "done"
    /\ writes # << >>
    /\ Last(writes) = [op |-> "UpdateStatus", err |-> "Conflict"]
    /\ ba.cfg # auth.cfg
    /\ auth.exists

\* the updates of workloads the invocation has issued
TargetWrites == SelectSeq(writes, LAMBDA w : w.op = "UpdateTarget")

\* C14: no workload ever holds more than one proxy container, and an update
\* of a workload is pending only from a copy that had no proxy container, so
\* that a workload that has the container is not updated.
C14_InjectOnce ==
    /\ \A t \in Targets : targets[t].proxies <= 1
    /\ \A i \in 1..Len(toUpdate) :
          /\ toUpdate[i].obj.proxies = 1
          /\ targets[toUpdate[i].id].proxies > 0 =>
                 toUpdate[i].obj.ver # targets[toUpdate[i].id].ver

\* after an invocation that failed between the two updates, a later invocation
\* has run against one injected and one not yet injected workload
C14_Witness ==
    /\ pc = "done"
    /\ result = NoResult
    /\ ba.type = "sidecar"
    /\ startInjected = 1
    /\ Len(TargetWrites) = 1
    /\ \A t \in Targets : targets[t].proxies = 1

\* C15: a sidecar invocation that starts with no workload injected and ends
\* with no error and no requeue has updated every matching workload once, and
\* each holds exactly one proxy container.
C15_InjectsAll ==
    (pc = "done" /\ ba.exists /\ ba.type = "sidecar" /\ result = NoResult
        /\ startInjected = 0) =>
        /\ Len(TargetWrites) = NumTargets
        /\ \A i \in 1..Len(TargetWrites) : TargetWrites[i].err = "nil"
        /\ \A t \in Targets : targets[t].proxies = 1

\* one invocation, with the secret and the configmap present, has injected
\* all the workloads and written nothing else
C15_Witness ==
    /\ pc = "done"
    /\ ba.type = "sidecar"
    /\ result = NoResult
    /\ startInjected = 0
    /\ Len(writes) = NumTargets
    /\ TargetWrites = writes
    /\ \A t \in Targets : targets[t].proxies = 1

\* a standalone invocation has ended with no error and no requeue, with the
\* ref set, the configmap matching and the deployment present
ConvergedDone ==
    /\ pc = "done"
    /\ result = NoResult
    /\ auth.exists
    /\ auth.ref # ""
    /\ cm.exists
    /\ cm.data = NginxConfigData(auth)
    /\ dep.exists

\* the resource is there, standalone, and a secret it names exists
Convergeable ==
    /\ auth.exists
    /\ auth.type = "standalone"
    /\ auth.ref # "" => secrets[auth.ref].exists

\* C16: if from some point on the resource stays a standalone one whose named
\* secret, if any, exists, then eventually an invocation ends converged.
C16_Converges == <>[]Convergeable => <>ConvergedDone

\* the secrets in the store that carry the owner reference of the resource
OwnedSecrets == {n \in StoreNames : secrets[n].exists /\ secrets[n].owned}

\* C17: in every reachable state, whatever reconciles, failures and retries
\* came before, Reconcile has created at most one secret, at most one
\* configmap and at most one deployment for the resource, and at most one
\* secret owned by the resource is in the store.
C17_AtMostOne ==
    /\ \A k \in DOMAIN creates : creates[k] <= 1
    /\ Cardinality(OwnedSecrets) <= 1

\* all three dependents were created, one store call failed on the way, and
\* invocations kept running afterwards
C17_Witness ==
    /\ \A k \in DOMAIN creates : creates[k] = 1
    /\ faults > 0
    /\ invNo >= 5
    /\ pc = "done"
    /\ result = NoResult
    /\ auth.exists
    /\ dep.exists

\* C18: a step of Reconcile changes the stored credentialsSecretRef only to
\* the name of a secret whose create succeeded earlier in the same invocation,
\* the update of the resource being the write right after that create; a
\* failed create of the secret ends the invocation with the resource as it
\* was; and no step removes a secret, so the ref Reconcile stored keeps naming
\* a secret that exists.
C18_RefAfterCreate ==
    [][/\ (Reconcile /\ auth'.ref # auth.ref) =>
            /\ auth'.ref # ""
            /\ Len(writes') >= 2
            /\ writes'[Len(writes') - 1] = [op |-> "CreateSecret", err |-> "nil"]
            /\ Last(writes') = [op |-> "UpdateAuth", err |-> "nil"]
            /\ secrets'[auth'.ref].exists
       /\ (pc = "secretCreate" /\ pc' # pc /\ Last(writes').err # "nil") =>
            /\ pc' = "done"
            /\ auth' = auth
       /\ \A n \in StoreNames : secrets[n].exists => secrets'[n].exists]_vars

\* Reconcile has just stored the ref, after an earlier invocation was ended
\* by a failed store call
C18_Witness ==
    /\ pc = "authRefetch"
    /\ invNo >= 2
    /\ faults > 0
    /\ auth.ref = Det
    /\ secrets[Det].exists
    /\ Ops(writes) = <<"CreateSecret", "UpdateAuth">>

DepOps == {"CreateDeployment", "UpdateDeployment"}
WriteOps == CreateOps \cup {"UpdateAuth", "UpdateConfig", "UpdateDeployment",
                            "UpdateTarget", "UpdateStatus"}

\* C19: the workload step of an invocation takes one path, chosen by the
\* mode Reconcile read: in sidecar mode no create or update of the deployment
\* is issued and the stored deployment is left as it is, in any other mode no
\* update of a target workload is issued and the targets are left as they
\* are; and no step of Reconcile issues a delete or makes a stored object
\* absent.
C19_OnePathPerMode ==
    [][/\ ba'.type = "sidecar" =>
            \A i \in 1..Len(writes') : writes'[i].op \notin DepOps
       /\ ba'.type # "sidecar" =>
            \A i \in 1..Len(writes') : writes'[i].op # "UpdateTarget"
       /\ (Reconcile /\ ba.type = "sidecar") => dep' = dep
       /\ (Reconcile /\ ba.type # "sidecar") => targets' = targets
       /\ \A i \in 1..Len(writes') : writes'[i].op \in WriteOps
       /\ Reconcile =>
            /\ auth.exists => auth'.exists
            /\ cm.exists => cm'.exists
            /\ dep.exists => dep'.exists
            /\ \A n \in StoreNames : secrets[n].exists => secrets'[n].exists
            /\ DOMAIN targets' = DOMAIN targets]_vars

\* a sidecar invocation has injected a workload while the deployment of an
\* earlier standalone phase is in the store, untouched
C19_Witness ==
    /\ pc = "done"
    /\ ba.type = "sidecar"
    /\ Wrote("UpdateTarget")
    /\ dep.exists
    /\ creates.deployment = 1


====
